---- MODULE Spec2Model ----
(***************************************************************************)
(* Model of the polymarket-dash pipeline:                                  *)
(*   scripts/polymarket_enriched_fast.py  fetch step: rank_hot, rank_gems, *)
(*                                        full CSV + top-12 CSV            *)
(*   scripts/derive_top12_from_csv.py     top-12 CSV from the full CSV     *)
(*   scripts/build_site_from_csv.py       index / snapshot / archive pages *)
(*                                                                         *)
(* Numbers.  Python floats are modelled by scaled integers:                *)
(*   volumes in dollars, avgSpread and underround in thousandths,          *)
(*   timeToResolveDays in days, scores in millionths (floor).              *)
(* An optional value is <<>> (None in memory, the empty cell in a CSV      *)
(* file) or <<v>>.  csv.DictWriter writes None as the empty cell and a     *)
(* number as its repr, which float() reads back exactly; what changes      *)
(* across the file is truthiness: the number 0 is falsy in memory, its     *)
(* text "0.0" is truthy once read back.                                    *)
(***************************************************************************)
EXTENDS Integers, Sequences, FiniteSets, TLC

VARIABLES
    csvFile,    \* newest polymarket_enriched_fast_*.csv: [exists, rows]
    top12File,  \* newest polymarket_top12_*.csv: [exists, rows]
    ranked,     \* lists computed by the last ranking step: [by, hot, gems]
    index,      \* site/index.html
    snaps,      \* site/dashboard_*.html: snapshot key -> page
    archive,    \* site/archive.html
    hist,       \* data/desc_history.json
    clock,      \* wall clock, in ticks
    builds,     \* build runs started so far
    lastRun,    \* the last script run: [op, rc, key, hot, gems]
    runs,       \* repeated ranking of one collection: [prev, last] run kinds
    rot,        \* choose_rotating_file calls on one pool: [pool, keep, picks]
    trades,     \* one call of fetch_trades_24h: its market, loop and totals
    enrich      \* one call of fast_enrich: its markets, tasks and rows

vars == <<csvFile, top12File, ranked, index, snaps, archive, hist, clock,
          builds, lastRun, runs, rot,
                   trades, enrich>>

----------------------------------------------------------------------------
(* Bounds of the model *)

\* rows of market profile 1, and of profile 2, in a fetched collection
MaxPer == 13
\* rows of market profile 3, and of profile 4, in a fetched collection
MaxFew == 1
\* wall-clock ticks a behaviour of the site specification covers
MaxClock == 5
\* clock ticks per minute (the snapshot key drops everything below the minute)
TicksPerMinute == 2
\* build runs in one behaviour of the site specification
MaxBuilds == 4
\* rows of profile 6, and of profile 7, in a collection of the selection
\* specification
MaxSel == 6
\* trades a market has in the last 24 hours, at most
MaxTrades == 1001
\* size of every trade of the market, at most
MaxSize == 2
\* markets handed to fast_enrich, at most
MaxMarkets == 3
\* worker threads of fast_enrich (--concurrency), at most
MaxWorkers == 2
\* largest keep of choose_rotating_file in the rotation specification
MaxKeep == 3
\* calls of choose_rotating_file in one behaviour of the rotation
\* specification
MaxPicks == 5

----------------------------------------------------------------------------
(* Program constants *)

\* [:12] of rank_hot / rank_gems / derive_top12 / the builder
Limit == 12
\* rank_gems: moderate-volume band
VolLow == 1500
VolHigh == 200000
\* rank_hot / rank_gems: timeToResolveDays replacement ("ttr or 365")
TtrDefault == 365
\* choose_rotating_file(keep=30)
Keep == 30
\* fetch_trades_24h: limit = 1000, while page < 5
TradesLimit == 1000
TradesPages == 5

----------------------------------------------------------------------------
(* Generic helpers *)

None == <<>>

Some(v) == <<v>>

IsNum(x) == x # <<>>

Min(S) == CHOOSE x \in S : \A y \in S : x <= y

\* s[:n]
Take(s, n) == SubSeq(s, 1, IF Len(s) < n THEN Len(s) ELSE n)

\* s[a:b] with 0-based Python slice bounds
Slice(s, a, b) ==
    LET hi == IF Len(s) < b THEN Len(s) ELSE b
    IN  IF a >= hi THEN <<>> ELSE SubSeq(s, a + 1, hi)

Range(s) == {s[i] : i \in 1..Len(s)}

\* lexicographic order of two integer tuples of the same length
RECURSIVE LexLess(_, _)
LexLess(a, b) ==
    IF a = <<>> THEN FALSE
    ELSE IF a[1] # b[1] THEN a[1] < b[1]
    ELSE LexLess(Tail(a), Tail(b))

\* list.sort / sorted are stable: a pair <<key, item>> goes before the first
\* pair whose key is strictly larger, after every pair whose key is not.
InsertSorted(t, x) ==
    LET later == {j \in 1..Len(t) : LexLess(x[1], t[j][1])}
        p == IF later = {} THEN Len(t) + 1 ELSE Min(later)
    IN  SubSeq(t, 1, p - 1) \o <<x>> \o SubSeq(t, p, Len(t))

RECURSIVE SortFrom(_, _, _)
SortFrom(s, i, acc) ==
    IF i > Len(s) THEN acc
    ELSE SortFrom(s, i + 1, InsertSorted(acc, s[i]))

\* the items of the pairs <<key, item>>, by ascending key, stable
StableSort(s) ==
    LET srt == SortFrom(s, 1, <<>>)
    IN  [i \in 1..Len(srt) |-> srt[i][2]]

----------------------------------------------------------------------------
(* Market rows *)

\* decimal market ids, and the tags standing for Python object identities
\* (id(r)): ObjName for the dicts of the enriched list or of the enriched CSV
\* as read, TopObjName for the dicts read from the top-12 CSV
IdName == <<"1", "2", "3", "4", "5", "6", "7", "8", "9", "10", "11", "12",
            "13", "14", "15", "16", "17", "18", "19", "20", "21", "22",
            "23", "24", "25", "26", "27", "28", "29", "30", "31", "32",
            "33", "34", "35", "36", "37", "38", "39", "40", "41", "42",
            "43", "44", "45", "46", "47", "48", "49", "50", "51", "52",
            "53", "54", "55", "56", "57", "58", "59", "60">>

ObjName == <<"@1", "@2", "@3", "@4", "@5", "@6", "@7", "@8", "@9", "@10",
             "@11", "@12", "@13", "@14", "@15", "@16", "@17", "@18", "@19",
             "@20", "@21", "@22", "@23", "@24", "@25", "@26", "@27", "@28",
             "@29", "@30", "@31", "@32", "@33", "@34", "@35", "@36", "@37",
             "@38", "@39", "@40", "@41", "@42", "@43", "@44", "@45", "@46",
             "@47", "@48", "@49", "@50", "@51", "@52", "@53", "@54", "@55",
             "@56", "@57", "@58", "@59", "@60">>

TopObjName == <<"t1", "t2", "t3", "t4", "t5", "t6", "t7", "t8", "t9", "t10",
                "t11", "t12", "t13", "t14", "t15", "t16", "t17", "t18", "t19",
                "t20", "t21", "t22", "t23", "t24">>

\* The kinds of market fast_enrich can return (its dict, lines 422-447):
\*   1 heavy volume, tight book         2 moderate volume, mid near 50%
\*   3 moderate volume, no spread       4 no id and no slug: nothing fetched
\*   5 no trade in 24 h (volume24h is 0.0), heavy lifetime volume
\*   6 moderate volume, mid away from 50%, asks sum below 1, resolves tomorrow
\*   7 moderate volume, mid near 50%, asks sum far above 1, resolves late
\*   8 moderate volume, end date 30 days ago
\*   9 moderate volume, end date 45 days ago
\*  10 moderate volume, listed under the id 0
Profiles == <<
    [hasId |-> TRUE, volume |-> Some(300000), volume24h |-> Some(300000),
     avgSpread |-> Some(10), underround |-> None, near50Flag |-> 0,
     timeToResolveDays |-> Some(10), outcomeCount |-> 2],
    [hasId |-> TRUE, volume |-> Some(5000), volume24h |-> Some(2000),
     avgSpread |-> Some(20), underround |-> Some(-50), near50Flag |-> 1,
     timeToResolveDays |-> Some(30), outcomeCount |-> 2],
    [hasId |-> TRUE, volume |-> Some(5000), volume24h |-> Some(5000),
     avgSpread |-> None, underround |-> Some(20), near50Flag |-> 0,
     timeToResolveDays |-> None, outcomeCount |-> 2],
    [hasId |-> FALSE, volume |-> Some(1000), volume24h |-> None,
     avgSpread |-> None, underround |-> None, near50Flag |-> 0,
     timeToResolveDays |-> Some(0), outcomeCount |-> 0],
    [hasId |-> TRUE, volume |-> Some(300000), volume24h |-> Some(0),
     avgSpread |-> None, underround |-> None, near50Flag |-> 0,
     timeToResolveDays |-> None, outcomeCount |-> 2],
    [hasId |-> TRUE, volume |-> Some(5000), volume24h |-> Some(2000),
     avgSpread |-> Some(20), underround |-> Some(-300), near50Flag |-> 0,
     timeToResolveDays |-> Some(1), outcomeCount |-> 2],
    [hasId |-> TRUE, volume |-> Some(5000), volume24h |-> Some(2000),
     avgSpread |-> Some(20), underround |-> Some(500), near50Flag |-> 1,
     timeToResolveDays |-> Some(300), outcomeCount |-> 2],
    [hasId |-> TRUE, volume |-> Some(5000), volume24h |-> Some(2000),
     avgSpread |-> Some(20), underround |-> None, near50Flag |-> 0,
     timeToResolveDays |-> Some(-30), outcomeCount |-> 2],
    [hasId |-> TRUE, volume |-> Some(5000), volume24h |-> Some(2000),
     avgSpread |-> Some(20), underround |-> None, near50Flag |-> 0,
     timeToResolveDays |-> Some(-45), outcomeCount |-> 2],
    [hasId |-> TRUE, volume |-> Some(5000), volume24h |-> Some(5000),
     avgSpread |-> None, underround |-> Some(20), near50Flag |-> 0,
     timeToResolveDays |-> None, outcomeCount |-> 2] >>

\* the profiles whose market has the id 0; slug and url are its own
ZeroId == {10}

\* the enriched dict of the i-th market, of profile p
EnrichedRow(i, p) ==
    [id |-> IF ~Profiles[p].hasId THEN ""
            ELSE IF p \in ZeroId THEN "0" ELSE IdName[i],
     slug |-> IF Profiles[p].hasId THEN IdName[i] ELSE "",
     url |-> IF Profiles[p].hasId THEN IdName[i] ELSE "",
     question |-> "",
     volume |-> Profiles[p].volume,
     volume24h |-> Profiles[p].volume24h,
     avgSpread |-> Profiles[p].avgSpread,
     underround |-> Profiles[p].underround,
     near50Flag |-> Profiles[p].near50Flag,
     timeToResolveDays |-> Profiles[p].timeToResolveDays,
     outcomeCount |-> Profiles[p].outcomeCount,
     obj |-> ObjName[i]]

\* the enriched list for a sequence of profiles
EnrichedRows(ps) == [i \in 1..Len(ps) |-> EnrichedRow(i, ps[i])]

\* csv.DictWriter then csv.DictReader: every cell is text; obj stands for
\* the identity of the dict the reader builds for line i
CsvRow(r, i) ==
    [id |-> r.id, slug |-> r.slug, url |-> r.url, question |-> r.question,
     volume |-> r.volume, volume24h |-> r.volume24h,
     avgSpread |-> r.avgSpread, underround |-> r.underround,
     near50Flag |-> Some(r.near50Flag),
     timeToResolveDays |-> r.timeToResolveDays,
     outcomeCount |-> Some(r.outcomeCount),
     obj |-> ObjName[i]]

read_csv_rows(rs) == [i \in 1..Len(rs) |-> CsvRow(rs[i], i)]

\* Where the dicts of a run lie in memory is up to the allocator: a run may
\* build the dict of line i at an address growing with i ("up", as above) or
\* falling with i ("down").
Layouts == {"up", "down"}

read_csv_rows_at(rs, layout) ==
    [i \in 1..Len(rs) |->
        CsvRow(rs[i], IF layout = "down" THEN Len(rs) + 1 - i ELSE i)]

\* id(r): the address of a dict
Address(r) == CHOOSE a \in 1..Len(ObjName) : ObjName[a] = r.obj

----------------------------------------------------------------------------
(* polymarket_enriched_fast.py: rank_hot, rank_gems *)

\* math.log1p in millionths, on the volumes the profiles use
Log1pMicro(v) ==
    CASE v = 0 -> 0
      [] v = 1000 -> 6908755
      [] v = 2000 -> 7601402
      [] v = 5000 -> 8517393
      [] v = 300000 -> 12611541

\* "x or 0.0" on an in-memory number
OrZero(x) == IF IsNum(x) THEN x[1] ELSE 0

\* "ttr or 365"
TtrOrDefault(x) == IF IsNum(x) /\ x[1] # 0 THEN x[1] ELSE TtrDefault

\* rank_hot.key: vol24 if it is a number and truthy, else lifetime volume
HotVolume(r) ==
    IF IsNum(r.volume24h) /\ r.volume24h[1] # 0
    THEN r.volume24h[1]
    ELSE OrZero(r.volume)

HotKey(r) ==
    LET spread == r.avgSpread
        spread_component ==
            IF IsNum(spread) /\ spread[1] >= 0
            THEN 10000000 \div (10 + spread[1])
            ELSE 500000
        ttr_component == 30000000 \div (30 + TtrOrDefault(r.timeToResolveDays))
    IN  (Log1pMicro(HotVolume(r)) * 13) \div 10
        + spread_component * 2
        + (ttr_component * 12) \div 10

\* rank_hot.key divides by 1.0 + ttr/30.0, which is 0.0 for ttr = -30.0:
\* ZeroDivisionError
HotKeyRaises(r) == 30 + TtrOrDefault(r.timeToResolveDays) = 0

\* sorted(rows, key=key, reverse=True): larger key first, ties in input order
SortedByKeyDesc(rows, Key(_)) ==
    StableSort([i \in 1..Len(rows) |-> <<(<<0 - Key(rows[i])>>), rows[i]>>])

\* rank_hot without its [:12]
rank_hot_unsliced(rows) == SortedByKeyDesc(rows, HotKey)

rank_hot(rows) == Take(SortedByKeyDesc(rows, HotKey), Limit)

GemKey(r) ==
    LET vol24 == OrZero(r.volume24h)
        near50 == r.near50Flag
        under == r.underround
        ttr == TtrOrDefault(r.timeToResolveDays)
        vol_penalty == IF vol24 > VolHigh THEN -1000000
                       ELSE IF vol24 < VolLow THEN -400000 ELSE 0
        raw == IF IsNum(under) THEN (0 - under[1]) * 2200 ELSE 0
        under_bonus == IF ~IsNum(under) THEN 0
                       ELSE IF raw < -1000000 THEN -1000000
                       ELSE IF raw > 600000 THEN 600000 ELSE raw
        ttr_bonus == 45000000 \div (45 + ttr)
    IN  near50 * 2200000 + under_bonus + ttr_bonus + vol_penalty

\* rank_gems.key divides by 1.0 + ttr/45.0, which is 0.0 for ttr = -45.0:
\* ZeroDivisionError
GemKeyRaises(r) == 45 + TtrOrDefault(r.timeToResolveDays) = 0

\* rank_gems, lines 481-485: the pool that is sorted
GemPool(rows) ==
    LET candidates == SelectSeq(rows, LAMBDA r : OrZero(r.volume24h) >= 0)
        with_quotes == SelectSeq(candidates, LAMBDA r : r.outcomeCount > 0)
        pool == IF with_quotes # <<>> THEN with_quotes ELSE candidates
        pool_mod == SelectSeq(pool, LAMBDA r :
                        VolLow <= OrZero(r.volume24h)
                        /\ OrZero(r.volume24h) <= VolHigh)
    IN  IF pool_mod # <<>> THEN pool_mod ELSE pool

rank_gems(rows) == Take(SortedByKeyDesc(GemPool(rows), GemKey), Limit)

\* main, lines 518-519: rank_hot(enriched), then rank_gems(enriched), raises
RankRaises(rows) ==
    \/ \E i \in 1..Len(rows) : HotKeyRaises(rows[i])
    \/ \E i \in 1..Len(GemPool(rows)) : GemKeyRaises(GemPool(rows)[i])

\* main, lines 540-564: the top-12 file, HOT rows then HIDDEN_GEMS rows
FetchTop12Row(r, label, i) ==
    [label |-> label, rank |-> i,
     id |-> r.id, slug |-> r.slug, url |-> r.url, question |-> r.question,
     volume |-> r.volume, volume24h |-> r.volume24h,
     avgSpread |-> r.avgSpread, underround |-> r.underround,
     near50Flag |-> Some(r.near50Flag),
     timeToResolveDays |-> r.timeToResolveDays,
     outcomeCount |-> Some(r.outcomeCount)]

FetchTop12(hot, gems) ==
    [i \in 1..Len(hot) |-> FetchTop12Row(hot[i], "HOT", i)]
    \o [i \in 1..Len(gems) |-> FetchTop12Row(gems[i], "HIDDEN_GEMS", i)]

----------------------------------------------------------------------------
(* derive_top12_from_csv.py *)

\* fnum(row, key, 0.0) on a text cell
fnum(cell) == IF IsNum(cell) THEN cell[1] ELSE 0

\* ttr_days: the cell's number, or 9e9 when it is empty.  9e9 is beyond the
\* integers at hand and beyond every day count a row holds, so the value is
\* the pair <<0, days>> or <<1, 0>>, compared lexicographically.
ttr_days(row) ==
    IF IsNum(row.timeToResolveDays) THEN <<0, row.timeToResolveDays[1]>>
    ELSE <<1, 0>>

\* volume24h or vol24h or volume: a text cell is truthy when it is not empty
\* (the enriched CSV has no vol24h column)
vol24(row) ==
    LET v == IF IsNum(row.volume24h) THEN row.volume24h ELSE row.volume
    IN  IF IsNum(v) THEN v[1] ELSE 0

\* str(r.get("id") or r.get("slug") or r.get("url") or r.get("question") or id(r))
rid(r) ==
    IF r.id # "" THEN r.id
    ELSE IF r.slug # "" THEN r.slug
    ELSE IF r.url # "" THEN r.url
    ELSE IF r.question # "" THEN r.question
    ELSE r.obj

\* dict equality ("r in gems_rows"): by content, not by object
DictEq(a, b) == [a EXCEPT !.obj = ""] = [b EXCEPT !.obj = ""]

InList(r, lst) == \E j \in 1..Len(lst) : DictEq(r, lst[j])

\* lines 70-73
DeriveHot(rows) ==
    Take(StableSort([i \in 1..Len(rows) |->
             <<(<<0 - vol24(rows[i])>>) \o ttr_days(rows[i]), rows[i]>>]), Limit)

\* DerivePool with equal keys ordered by the address of the dict
DerivePool_by_address(rows, hot_rows) ==
    LET hot_ids == {rid(hot_rows[j]) : j \in 1..Len(hot_rows)}
        kept == SelectSeq(rows, LAMBDA r : rid(r) \notin hot_ids)
    IN  StableSort([i \in 1..Len(kept) |->
             <<(<<0 - fnum(kept[i].near50Flag), fnum(kept[i].underround)>>)
               \o ttr_days(kept[i]) \o <<Address(kept[i])>>, kept[i]>>])

\* lines 76-85: the sorted pool of rows whose identity is not a Hot identity
DerivePool(rows, hot_rows) ==
    LET hot_ids == {rid(hot_rows[j]) : j \in 1..Len(hot_rows)}
        kept == SelectSeq(rows, LAMBDA r : rid(r) \notin hot_ids)
    IN  StableSort([i \in 1..Len(kept) |->
             <<(<<0 - fnum(kept[i].near50Flag), fnum(kept[i].underround)>>)
               \o ttr_days(kept[i]), kept[i]>>])

\* lines 88-96: the backfill loop over pool[12:]
RECURSIVE DeriveBackfill(_, _, _, _)
DeriveBackfill(gems_rows, rest, i, hot_ids) ==
    IF i > Len(rest) \/ Len(gems_rows) >= Limit THEN gems_rows
    ELSE IF rid(rest[i]) \in hot_ids \/ InList(rest[i], gems_rows)
         THEN DeriveBackfill(gems_rows, rest, i + 1, hot_ids)
         ELSE DeriveBackfill(Append(gems_rows, rest[i]), rest, i + 1, hot_ids)

DeriveGems(rows, hot_rows) ==
    LET pool == DerivePool(rows, hot_rows)
        first == Take(pool, Limit)
        hot_ids == {rid(hot_rows[j]) : j \in 1..Len(hot_rows)}
    IN  IF Len(first) < Limit
        THEN DeriveBackfill(first, Slice(pool, Limit, Len(pool)), 1, hot_ids)
        ELSE first

\* lines 110-119: a row of the file derive_top12 writes
DeriveTop12Row(r, label, i) ==
    [label |-> label, rank |-> i,
     id |-> r.id, slug |-> r.slug, url |-> r.url, question |-> r.question,
     volume |-> r.volume, volume24h |-> r.volume24h,
     avgSpread |-> r.avgSpread, underround |-> r.underround,
     near50Flag |-> r.near50Flag,
     timeToResolveDays |-> r.timeToResolveDays,
     outcomeCount |-> r.outcomeCount]

DeriveTop12(hot, gems) ==
    [i \in 1..Len(hot) |-> DeriveTop12Row(hot[i], "HOT", i)]
    \o [i \in 1..Len(gems) |-> DeriveTop12Row(gems[i], "OVERLOOKED", i)]

----------------------------------------------------------------------------
(* build_site_from_csv.py: the Hot and Overlooked lists of a build *)

\* _row_key: first of id, slug, url, question that is not None, "" or "0";
\* "" stands for the None it returns when there is none
KeyOk(v) == v # "" /\ v # "0"

row_key(r) ==
    IF KeyOk(r.id) THEN r.id
    ELSE IF KeyOk(r.slug) THEN r.slug
    ELSE IF KeyOk(r.url) THEN r.url
    ELSE IF KeyOk(r.question) THEN r.question
    ELSE ""

\* _build_index: the last row of each key wins; rows without key are left out
HasKey(rows, k) == \E i \in 1..Len(rows) : row_key(rows[i]) = k

IndexLookup(rows, k) ==
    rows[CHOOSE i \in 1..Len(rows) :
            /\ row_key(rows[i]) = k
            /\ \A j \in (i + 1)..Len(rows) : row_key(rows[j]) # k]

\* read_csv_rows on the top-12 file (at most 24 lines): its cells are text
\* already, each line becomes a new dict
read_top12_rows(lines) ==
    [i \in 1..Len(lines) |->
        [label |-> lines[i].label, rank |-> lines[i].rank,
         id |-> lines[i].id, slug |-> lines[i].slug, url |-> lines[i].url,
         question |-> lines[i].question,
         volume |-> lines[i].volume, volume24h |-> lines[i].volume24h,
         avgSpread |-> lines[i].avgSpread, underround |-> lines[i].underround,
         near50Flag |-> lines[i].near50Flag,
         timeToResolveDays |-> lines[i].timeToResolveDays,
         outcomeCount |-> lines[i].outcomeCount,
         obj |-> TopObjName[i]]]

\* _resolve_top12_rows
resolve_top12_rows(top12_rows, rows) ==
    [i \in 1..Len(top12_rows) |->
        LET k == row_key(top12_rows[i])
        IN  IF k # "" /\ HasKey(rows, k) THEN IndexLookup(rows, k)
            ELSE top12_rows[i]]

\* float(r.get("near50Flag") or 0) >= 1 or float(r.get("underround") or 0) < 0
SeedTest(r) == fnum(r.near50Flag) >= 1 \/ fnum(r.underround) < 0

\* lines 468-472: fill hot from the rows whose key is not taken
RECURSIVE FillHot(_, _, _, _)
FillHot(hot, taken, rows, i) ==
    IF i > Len(rows) \/ Len(hot) >= Limit THEN [list |-> hot, taken |-> taken]
    ELSE IF row_key(rows[i]) \notin taken
         THEN FillHot(Append(hot, rows[i]), taken \cup {row_key(rows[i])},
                      rows, i + 1)
         ELSE FillHot(hot, taken, rows, i + 1)

\* lines 477-488: the seed loop (no length test, no break)
RECURSIVE SeedLoop(_, _, _, _)
SeedLoop(seed, taken, rows, i) ==
    IF i > Len(rows) THEN [list |-> seed, taken |-> taken]
    ELSE IF SeedTest(rows[i]) /\ row_key(rows[i]) \notin taken
         THEN SeedLoop(Append(seed, rows[i]), taken \cup {row_key(rows[i])},
                       rows, i + 1)
         ELSE SeedLoop(seed, taken, rows, i + 1)

\* lines 489-493: top the seed up from any row whose key is not taken
RECURSIVE SeedFill(_, _, _, _)
SeedFill(seed, taken, rows, i) ==
    IF i > Len(rows) \/ Len(seed) >= Limit THEN seed
    ELSE IF row_key(rows[i]) \notin taken
         THEN SeedFill(Append(seed, rows[i]), taken \cup {row_key(rows[i])},
                       rows, i + 1)
         ELSE SeedFill(seed, taken, rows, i + 1)

\* lines 446-494: the lists of the top-12 path
Top12Lists(rows, top12_rows) ==
    LET hot0 == resolve_top12_rows(Slice(top12_rows, 0, Limit), rows)
        gems0 == resolve_top12_rows(Slice(top12_rows, Limit, 2 * Limit), rows)
        need_hot == Len(hot0) < Limit
        need_gems == Len(gems0) < Limit
        both == hot0 \o gems0
        taken0 == {row_key(both[j]) : j \in 1..Len(both)} \ {""}
        h == FillHot(hot0, taken0, rows, 1)
        s1 == SeedLoop(<<>>, h.taken, rows, 1)
        s2 == SeedFill(s1.list, s1.taken, rows, 1)
    IN  IF need_hot \/ need_gems
        THEN [hot |-> h.list,
              gems |-> IF Len(gems0) < Limit THEN Take(s2, Limit) ELSE gems0]
        ELSE [hot |-> hot0, gems |-> gems0]

\* lines 518-523: the fallback fill loop (the length is tested after an append)
RECURSIVE HeuristicFill(_, _, _, _)
HeuristicFill(gems, hot_ids, rows, i) ==
    IF i > Len(rows) THEN gems
    ELSE IF rid(rows[i]) \notin hot_ids /\ ~InList(rows[i], gems)
         THEN IF Len(gems) + 1 >= Limit THEN Append(gems, rows[i])
              ELSE HeuristicFill(Append(gems, rows[i]), hot_ids, rows, i + 1)
         ELSE HeuristicFill(gems, hot_ids, rows, i + 1)

\* lines 499-524: the lists of the heuristic fallback path
HeuristicLists(rows) ==
    LET hot == Take(rows, Limit)
        hot_ids == {rid(hot[j]) : j \in 1..Len(hot)}
        seed == SelectSeq(rows, LAMBDA r : SeedTest(r) /\ rid(r) \notin hot_ids)
        gems == IF Len(seed) < Limit THEN HeuristicFill(seed, hot_ids, rows, 1)
                ELSE seed
    IN  [hot |-> hot, gems |-> Take(gems, Limit)]

\* lines 442-524
BuildLists(rows, top12) ==
    IF top12.exists THEN Top12Lists(rows, read_top12_rows(top12.rows))
    ELSE HeuristicLists(rows)

----------------------------------------------------------------------------
(* build_site_from_csv.py: descriptions, links, pages *)

MetaPool == {"meta_a.txt", "meta_b.txt"}

LongPool == {"long_a.html"}

\* load_history on a missing file
EmptyHistory == [recent_meta |-> <<>>, recent_long |-> <<>>]

\* The content of desc_history.json is either a JSON object, a record of
\* its keys, or [not_object |-> why] for a file that is missing, empty,
\* not JSON, or JSON of another type.  A value is a list of file names or
\* null; no description file is named null.
JsonNull == <<"null">>

IsList(v) == v # JsonNull

\* load_history: {} for what is not an object, then setdefault of the two
\* keys, which leaves a key that is present as it is
load_history(file) ==
    LET obj == IF "not_object" \in DOMAIN file THEN <<>> ELSE file
    IN  [k \in DOMAIN obj \cup {"recent_meta", "recent_long"} |->
            IF k \in DOMAIN obj THEN obj[k] ELSE <<>>]

\* choose_rotating_file: the files random.choice may return
RotationChoices(pool, recent) ==
    LET candidates == {f \in pool : f \notin Range(recent)}
    IN  IF candidates # {} THEN candidates ELSE pool

\* the trimming loop with pop() in place of pop(0)
TrimBack(recent, keep) == Take(recent, keep)

\* choose_rotating_file: recent after picking pick
RECURSIVE TrimFront(_, _)
TrimFront(recent, keep) ==
    IF Len(recent) > keep THEN TrimFront(Tail(recent), keep) ELSE recent

RotatedRecent(recent, pick, keep) == TrimFront(Append(recent, pick), keep)

\* link targets: file names of the site directory; NoHref is None
NoHref == <<>>

IndexHref == <<"index.html">>

ArchiveHref == <<"archive.html">>

\* ts_for_snapshot: dashboard_%Y-%m-%d_%H%M.html, the minute of dt.  The
\* name is of fixed width, so sorting names sorts minutes.
ts_for_snapshot(dt) == dt \div TicksPerMinute

SnapHref(key) == <<"dashboard", key>>

Max(S) == CHOOSE x \in S : \A y \in S : x >= y

\* sorted(SITE_DIR.glob("dashboard_*.html"))[-1].name, or None
LastSnap(files) ==
    IF DOMAIN files = {} THEN NoHref ELSE SnapHref(Max(DOMAIN files))

\* build_nav_back_forward / page_footer: the links a page of page_type shows
\* (an href of None renders a hidden button; index never has Forward)
NavLinks(page_type, back_href, fwd_href) ==
    [back |-> back_href,
     fwd |-> IF page_type = "index" THEN NoHref ELSE fwd_href]

\* description_html and methodology_html are called by main but defined
\* nowhere in the file at hand; they are taken to be total renderers of their
\* arguments, so a page's description is the pair of files picked.
description_html(short_desc, long_desc_html) == <<short_desc, long_desc_html>>

\* render_grid: the cards of a list show the cells of its rows
Card(r) ==
    [id |-> r.id, slug |-> r.slug, url |-> r.url, question |-> r.question,
     volume24h |-> r.volume24h, volume |-> r.volume,
     timeToResolveDays |-> r.timeToResolveDays]

Cards(lst) == [i \in 1..Len(lst) |-> Card(lst[i])]

NoPage == [exists |-> FALSE]

\* lines 539-577: index.html
IndexPage(lists, desc, files) ==
    [exists |-> TRUE, hot |-> Cards(lists.hot), gems |-> Cards(lists.gems),
     desc |-> desc, nav |-> NavLinks("index", LastSnap(files), NoHref)]

\* the snapshot page, but with the description of the newest page listed
SnapshotPage_listed_description(lists, desc, files, now) ==
    [hot |-> Cards(lists.hot), gems |-> Cards(lists.gems),
     desc |-> IF DOMAIN files = {} THEN desc
              ELSE files[Max(DOMAIN files)].desc,
     nav |-> NavLinks("snapshot",
                      IF DOMAIN files = {} THEN ArchiveHref ELSE LastSnap(files),
                      IndexHref),
     mtime |-> now]

\* lines 579-619: the snapshot page; files is the directory listing taken at
\* line 588, before the page is written
SnapshotPage(lists, desc, files, now) ==
    [hot |-> Cards(lists.hot), gems |-> Cards(lists.gems), desc |-> desc,
     nav |-> NavLinks("snapshot",
                      IF DOMAIN files = {} THEN ArchiveHref ELSE LastSnap(files),
                      IndexHref),
     mtime |-> now]

\* line 628-630: the snapshots the mtime-descending sort may put last
OldestByMtime(files) ==
    {k \in DOMAIN files : \A j \in DOMAIN files : files[k].mtime <= files[j].mtime}

\* lines 621-670: archive.html, with oldest the key sorted last (or none)
ArchivePage(desc, oldest_snap) ==
    [exists |-> TRUE, desc |-> desc,
     nav |-> NavLinks("archive", NoHref, oldest_snap)]

----------------------------------------------------------------------------
(* The scripts as actions *)

NoRun == [op |-> "none", rc |-> 0, key |-> -1, hot |-> <<>>, gems |-> <<>>]

\* no ranking has been repeated; no rotation call is under observation
NoRuns == [prev |-> "none", last |-> "none"]

NoRot == [pool |-> {}, keep |-> 0, picks |-> <<>>]

\* fetch_trades_24h is not being called: no market, nothing asked or counted
NoTrades == [n |-> 0, size |-> 0, page |-> 0, asked |-> <<>>,
             got |-> <<>>, total_trades |-> 0, total_volume |-> 0,
             done |-> TRUE]

\* fast_enrich is not being called
NoEnrich == [top_markets |-> <<>>, concurrency |-> 0, task |-> <<>>,
             results |-> <<>>, pc |-> "idle", enriched |-> <<>>]

Init ==
    /\ csvFile = [exists |-> FALSE, rows |-> <<>>]
    /\ top12File = [exists |-> FALSE, rows |-> <<>>]
    /\ ranked = [by |-> "none", hot |-> <<>>, gems |-> <<>>]
    /\ index = NoPage
    /\ snaps = <<>>
    /\ archive = NoPage
    /\ hist = EmptyHistory
    /\ clock = 0
    /\ builds = 0
    /\ lastRun = NoRun
    /\ runs = NoRuns
    /\ rot = NoRot
    /\ trades = NoTrades
    /\ enrich = NoEnrich

\* polymarket_enriched_fast.py main on the markets of profiles ps
FetchMain(ps) ==
    LET enriched == EnrichedRows(ps)
        hot == rank_hot(enriched)
        gems == rank_gems(enriched)
    IN  /\ ~RankRaises(enriched)
        /\ csvFile' = [exists |-> TRUE, rows |-> enriched]
        /\ top12File' = [exists |-> TRUE, rows |-> FetchTop12(hot, gems)]
        /\ ranked' = [by |-> "fetch", hot |-> hot, gems |-> gems]
        /\ lastRun' = [NoRun EXCEPT !.op = "fetch"]
        /\ UNCHANGED <<index, snaps, archive, hist, clock, builds, runs, rot,
                   trades, enrich>>

\* polymarket_enriched_fast.py main when a sort key raises: the full CSV is
\* written (line 510) before the ranking, the top-12 file is not written and
\* the script ends with a traceback
FetchRaise(ps) ==
    LET enriched == EnrichedRows(ps)
    IN  /\ RankRaises(enriched)
        /\ csvFile' = [exists |-> TRUE, rows |-> enriched]
        /\ lastRun' = [NoRun EXCEPT !.op = "fetch", !.rc = 1]
        /\ UNCHANGED <<top12File, ranked, index, snaps, archive, hist, clock,
                       builds, runs, rot,
                   trades, enrich>>

\* derive_top12_from_csv.py main on the enriched CSV, its dicts laid out in
\* memory by layout
DeriveRun(layout) ==
    /\ csvFile.exists
    /\ csvFile.rows # <<>>
    /\ LET rows == read_csv_rows_at(csvFile.rows, layout)
           hot == DeriveHot(rows)
           gems == DeriveGems(rows, hot)
       IN  /\ top12File' = [exists |-> TRUE, rows |-> DeriveTop12(hot, gems)]
           /\ ranked' = [by |-> "derive", hot |-> hot, gems |-> gems]
    /\ lastRun' = [NoRun EXCEPT !.op = "derive"]
    /\ UNCHANGED <<csvFile, index, snaps, archive, hist, clock, builds, rot,
                   trades, enrich>>

DeriveMain == DeriveRun("up") /\ UNCHANGED runs

\* derive_top12_from_csv.py main: "CSV not found" / "CSV empty"
DeriveFail ==
    /\ ~csvFile.exists \/ csvFile.rows = <<>>
    /\ lastRun' = [NoRun EXCEPT !.op = "derive", !.rc = 1]
    /\ UNCHANGED <<csvFile, top12File, ranked, index, snaps, archive, hist,
                   clock, builds, runs, rot,
                   trades, enrich>>

\* the build runs on a checkout that carries no polymarket_top12_*.csv
DropTop12 ==
    /\ top12File.exists
    /\ top12File' = [exists |-> FALSE, rows |-> <<>>]
    /\ UNCHANGED <<csvFile, ranked, index, snaps, archive, hist, clock,
                   builds, lastRun, runs, rot,
                   trades, enrich>>

\* main with the CSV tests after the rotation of the descriptions
BuildFail_after_rotation ==
    /\ builds < MaxBuilds
    /\ ~csvFile.exists \/ csvFile.rows = <<>>
    /\ \E meta_pick \in RotationChoices(MetaPool, hist.recent_meta) :
           hist' = [hist EXCEPT !.recent_meta =
                                   RotatedRecent(@, meta_pick, Keep)]
    /\ builds' = builds + 1
    /\ lastRun' = [NoRun EXCEPT !.op = "build", !.rc = 1]
    /\ UNCHANGED <<csvFile, top12File, ranked, index, snaps, archive, clock,
                   runs, rot, trades, enrich>>

\* build_site_from_csv.py main, lines 433-440: no CSV or no rows
BuildFail ==
    /\ builds < MaxBuilds
    /\ ~csvFile.exists \/ csvFile.rows = <<>>
    /\ builds' = builds + 1
    /\ lastRun' = [NoRun EXCEPT !.op = "build", !.rc = 1]
    /\ UNCHANGED <<csvFile, top12File, ranked, index, snaps, archive, hist,
                   clock, runs, rot,
                   trades, enrich>>

\* build_site_from_csv.py main, lines 442-682
BuildMain ==
    /\ builds < MaxBuilds
    /\ csvFile.exists
    /\ csvFile.rows # <<>>
    /\ IsList(load_history(hist).recent_meta)
    /\ IsList(load_history(hist).recent_long)
    /\ \E meta_pick \in RotationChoices(MetaPool,
                                        load_history(hist).recent_meta),
          long_pick \in RotationChoices(LongPool,
                                        load_history(hist).recent_long) :
        LET rows == read_csv_rows(csvFile.rows)
            loaded == load_history(hist)
            lists == BuildLists(rows, top12File)
            desc == description_html(meta_pick, long_pick)
            now == clock
            snap_name == ts_for_snapshot(now)
            snaps_after == [k \in DOMAIN snaps \cup {snap_name} |->
                               IF k = snap_name
                               THEN SnapshotPage(lists, desc, snaps, now)
                               ELSE snaps[k]]
        IN  /\ hist' = [loaded EXCEPT
                           !.recent_meta =
                               RotatedRecent(loaded.recent_meta, meta_pick,
                                             Keep),
                           !.recent_long =
                               RotatedRecent(loaded.recent_long, long_pick,
                                             Keep)]
            /\ index' = IndexPage(lists, desc, snaps)
            /\ snaps' = snaps_after
            /\ \E oldest \in OldestByMtime(snaps_after) :
                   archive' = ArchivePage(desc, SnapHref(oldest))
            /\ lastRun' = [op |-> "build", rc |-> 0, key |-> snap_name,
                           hot |-> lists.hot, gems |-> lists.gems]
    /\ builds' = builds + 1
    /\ UNCHANGED <<csvFile, top12File, ranked, clock, runs, rot,
                   trades, enrich>>

\* build_site_from_csv.py main, lines 442-531: choose_rotating_file raises
\* on a recent that is not a list ("in" on None); no page has been written
\* and the history is not saved
BuildRaise ==
    /\ builds < MaxBuilds
    /\ csvFile.exists
    /\ csvFile.rows # <<>>
    /\ \/ ~IsList(load_history(hist).recent_meta)
       \/ ~IsList(load_history(hist).recent_long)
    /\ builds' = builds + 1
    /\ lastRun' = [NoRun EXCEPT !.op = "build", !.rc = 1]
    /\ UNCHANGED <<csvFile, top12File, ranked, index, snaps, archive, hist,
                   clock, runs, rot, trades, enrich>>

\* time passes
Tick ==
    /\ clock < MaxClock
    /\ clock' = clock + 1
    /\ UNCHANGED <<csvFile, top12File, ranked, index, snaps, archive, hist,
                   builds, lastRun, runs, rot,
                   trades, enrich>>

\* The site directory is checked out anew (as a scheduled job does before it
\* builds): every snapshot file gets the time of the checkout as its
\* modification time, which is what line 628 sorts by.
Checkout ==
    /\ \E k \in DOMAIN snaps : snaps[k].mtime # clock
    /\ snaps' = [k \in DOMAIN snaps |-> [snaps[k] EXCEPT !.mtime = clock]]
    /\ UNCHANGED <<csvFile, top12File, ranked, index, archive, hist, clock,
                   builds, lastRun, runs, rot,
                   trades, enrich>>

----------------------------------------------------------------------------
(* Specification of the site: fetches and builds over time *)

\* the collections the fetch step returns in the site specification
SiteMixes == {<<>>, <<1, 2>>, <<3, 2, 4>>}

FetchSite == \E ps \in SiteMixes : FetchMain(ps)

Next == FetchSite \/ BuildMain \/ BuildFail \/ Tick \/ Checkout

Spec == Init /\ [][Next]_vars

----------------------------------------------------------------------------
(* Specification of the ranking: one pipeline run on a fresh checkout *)

Repeat(p, n) == [i \in 1..n |-> p]

Reverse(s) == [i \in 1..Len(s) |-> s[Len(s) + 1 - i]]

\* c1 rows of profile 1, then c2 of profile 2, ..., or the same reversed
RankMixes ==
    LET blocks == {Repeat(1, c[1]) \o Repeat(2, c[2]) \o Repeat(3, c[3])
                   \o Repeat(4, c[4]) :
                   c \in (0..MaxPer) \X (0..MaxPer) \X (0..MaxFew) \X (0..MaxFew)}
    IN  blocks \cup {Reverse(b) : b \in blocks}

FetchRank ==
    /\ ~csvFile.exists
    /\ \E ps \in RankMixes : FetchMain(ps)

DeriveRank == ~index.exists /\ DeriveMain

DropRank == ~index.exists /\ DropTop12

BuildRank == ~index.exists /\ BuildMain

NextRank == FetchRank \/ DeriveRank \/ DeriveFail \/ DropRank \/ BuildRank

SpecRank == Init /\ [][NextRank]_vars

----------------------------------------------------------------------------
(* Specification of the selection: rank_hot / rank_gems and derive_top12    *)
(* applied, and applied again, to one collection                            *)

\* h rows of profile 1 (h = 0 or 12), a of profile 6, b of profile 7, then
\* at most one row of each of the profiles 4, 5, 8, 9
SelectMixes ==
    {Repeat(1, c[1] * Limit) \o Repeat(6, c[2]) \o Repeat(7, c[3])
     \o Repeat(4, c[4]) \o Repeat(5, c[5]) \o Repeat(8, c[6])
     \o Repeat(9, c[7]) :
     c \in (0..1) \X (0..MaxSel) \X (0..MaxSel)
           \X (0..1) \X (0..1) \X (0..1) \X (0..1)}

FetchSelect ==
    /\ ~csvFile.exists
    /\ \E ps \in SelectMixes : FetchMain(ps)

FetchRaiseSelect ==
    /\ ~csvFile.exists
    /\ \E ps \in SelectMixes : FetchRaise(ps)

\* main, lines 518-564, once more on the list enriched it still holds
RankAgain ==
    /\ ranked.by = "fetch"
    /\ LET hot == rank_hot(csvFile.rows)
           gems == rank_gems(csvFile.rows)
       IN  /\ top12File' = [exists |-> TRUE, rows |-> FetchTop12(hot, gems)]
           /\ ranked' = [by |-> "fetch", hot |-> hot, gems |-> gems]
    /\ lastRun' = [NoRun EXCEPT !.op = "fetch"]
    /\ runs' = [prev |-> runs.last, last |-> "rank"]
    /\ UNCHANGED <<csvFile, index, snaps, archive, hist, clock, builds, rot,
                   trades, enrich>>

\* derive_top12_from_csv.py, run in a new process on the same CSV
DeriveSelect ==
    \E layout \in Layouts :
        /\ DeriveRun(layout)
        /\ runs' = [prev |-> runs.last, last |-> layout]

NextSelect == FetchSelect \/ FetchRaiseSelect \/ RankAgain \/ DeriveSelect

SpecSelect == Init /\ [][NextSelect]_vars

----------------------------------------------------------------------------
(* Specification of the rotation: choose_rotating_file called again and     *)
(* again with one pool, one recent list and one keep                        *)

RotationFiles == MetaPool \cup {"meta_c.txt"}

InitRotation ==
    /\ csvFile = [exists |-> FALSE, rows |-> <<>>]
    /\ top12File = [exists |-> FALSE, rows |-> <<>>]
    /\ ranked = [by |-> "none", hot |-> <<>>, gems |-> <<>>]
    /\ index = NoPage
    /\ snaps = <<>>
    /\ archive = NoPage
    /\ hist = EmptyHistory
    /\ clock = 0
    /\ builds = 0
    /\ lastRun = NoRun
    /\ runs = NoRuns
    /\ trades = NoTrades
    /\ enrich = NoEnrich
    /\ rot \in {[pool |-> P, keep |-> k, picks |-> <<>>] :
                 P \in (SUBSET RotationFiles) \ {{}}, k \in 0..MaxKeep}

\* choose_rotating_file(pool, recent, keep) on a non-empty pool
ChooseRotating ==
    /\ Len(rot.picks) < MaxPicks
    /\ \E pick \in RotationChoices(rot.pool, hist.recent_meta) :
           /\ hist' = [hist EXCEPT !.recent_meta =
                                       RotatedRecent(@, pick, rot.keep)]
           /\ rot' = [rot EXCEPT !.picks = Append(@, pick)]
    /\ UNCHANGED <<csvFile, top12File, ranked, index, snaps, archive, clock,
                   builds, lastRun, runs, trades, enrich>>

NextRotation == ChooseRotating

SpecRotation == InitRotation /\ [][NextRotation]_vars

----------------------------------------------------------------------------
(* Specification of the build: one minute of the pipeline on a site whose
   desc_history.json holds anything *)

HistoryValues == {<<>>, <<"meta_a.txt">>, JsonNull}

HistoryFiles ==
    {[not_object |-> why] : why \in {"missing", "empty", "invalid", "list"}}
    \cup {[recent_meta |-> a, recent_long |-> b] :
              a \in HistoryValues, b \in HistoryValues}
    \cup {[recent_meta |-> a] : a \in HistoryValues}
    \cup {[recent_long |-> b] : b \in HistoryValues}
    \cup {[version |-> <<"1">>]}

InitBuild ==
    /\ csvFile = [exists |-> FALSE, rows |-> <<>>]
    /\ top12File = [exists |-> FALSE, rows |-> <<>>]
    /\ ranked = [by |-> "none", hot |-> <<>>, gems |-> <<>>]
    /\ index = NoPage
    /\ snaps = <<>>
    /\ archive = NoPage
    /\ hist \in HistoryFiles
    /\ clock = 0
    /\ builds = 0
    /\ lastRun = NoRun
    /\ runs = NoRuns
    /\ rot = NoRot
    /\ trades = NoTrades
    /\ enrich = NoEnrich

\* the collections the fetch step returns in the build specification
BuildMixes == {<<>>, <<1, 2>>, <<10, 2>>, <<4, 10, 10>>}

FetchBuild ==
    /\ ~csvFile.exists
    /\ \E ps \in BuildMixes : FetchMain(ps)

NextBuild == FetchBuild \/ DeriveMain \/ BuildMain \/ BuildRaise \/ BuildFail

SpecBuild == InitBuild /\ [][NextBuild]_vars

----------------------------------------------------------------------------
(* Specification of fetch_trades_24h: one call for one market *)

\* line 288: the parameters of a page request
TradesParams == [market_id |-> "m", start |-> "now - 1 day",
                 limit |-> TradesLimit]

\* line 290: what the data API answers to a request for a market with n
\* trades since start, numbered 1..n from the newest: the trades the
\* parameters select, as the interval <<first, last>>; <<>> is the empty list.
\* The parameters name a market, a start and a limit, and nothing else.
TradesAnswer(params, n) ==
    IF n = 0 THEN <<>>
    ELSE <<1, IF n < params.limit THEN n ELSE params.limit>>

InitTrades ==
    /\ csvFile = [exists |-> FALSE, rows |-> <<>>]
    /\ top12File = [exists |-> FALSE, rows |-> <<>>]
    /\ ranked = [by |-> "none", hot |-> <<>>, gems |-> <<>>]
    /\ index = NoPage
    /\ snaps = <<>>
    /\ archive = NoPage
    /\ hist = EmptyHistory
    /\ clock = 0
    /\ builds = 0
    /\ lastRun = NoRun
    /\ runs = NoRuns
    /\ rot = NoRot
    /\ enrich = NoEnrich
    /\ trades \in {[NoTrades EXCEPT !.n = k, !.size = z, !.done = FALSE] :
                    k \in 0..MaxTrades, z \in 1..MaxSize}

\* lines 287-315: one turn of the loop whose request is answered
TradesPage ==
    /\ ~trades.done
    /\ trades.page < TradesPages
    /\ LET arr == TradesAnswer(TradesParams, trades.n)
           count == IF arr = <<>> THEN 0 ELSE arr[2] - arr[1] + 1
       IN  trades' =
             IF arr = <<>>
             THEN [trades EXCEPT !.asked = Append(@, TradesParams),
                                 !.done = TRUE]
             ELSE [trades EXCEPT
                      !.asked = Append(@, TradesParams),
                      !.got = Append(@, arr),
                      !.total_trades = @ + count,
                      !.total_volume = @ + count * trades.size,
                      !.page = IF count < TradesLimit THEN @ ELSE @ + 1,
                      !.done = count < TradesLimit
                               \/ trades.page + 1 >= TradesPages]
    /\ UNCHANGED <<csvFile, top12File, ranked, index, snaps, archive, hist,
                   clock, builds, lastRun, runs, rot, enrich>>

\* lines 289-292: http_get_json raises, the loop ends
TradesError ==
    /\ ~trades.done
    /\ trades.page < TradesPages
    /\ trades' = [trades EXCEPT !.asked = Append(@, TradesParams),
                                !.done = TRUE]
    /\ UNCHANGED <<csvFile, top12File, ranked, index, snaps, archive, hist,
                   clock, builds, lastRun, runs, rot, enrich>>

NextTrades == TradesPage \/ TradesError

SpecTrades == InitTrades /\ [][NextTrades]_vars

----------------------------------------------------------------------------
(* Specification of fast_enrich: one call, its worker threads interleaved *)

MarketIds == {"", "m1", "m2"}

\* str(m.get("id") or m.get("_id") or m.get("slug") or ""): the markets are
\* given by that string
Mid(m) == m

\* what task i stores for the market mid; by tells the fetches apart
TaskResult(mid, i) ==
    [quotes |-> IF mid = "" THEN <<>> ELSE <<mid>>, by |-> i]

\* results.get(mid) or {}
NoBundle == [quotes |-> <<>>, by |-> 0]

Bundle(results, mid) ==
    IF mid \in DOMAIN results THEN results[mid] ELSE NoBundle

\* lines 366-369: the loop over as_completed and the exit of the with block
\* return once every future has finished, with a result or an exception
NoneFinished(task) == TRUE

AllFinished(task) ==
    \A i \in 1..Len(task) : task[i] \in {"done", "raised"}

Running(task) == Cardinality({i \in 1..Len(task) : task[i] = "running"})

InitEnrich ==
    /\ csvFile = [exists |-> FALSE, rows |-> <<>>]
    /\ top12File = [exists |-> FALSE, rows |-> <<>>]
    /\ ranked = [by |-> "none", hot |-> <<>>, gems |-> <<>>]
    /\ index = NoPage
    /\ snaps = <<>>
    /\ archive = NoPage
    /\ hist = EmptyHistory
    /\ clock = 0
    /\ builds = 0
    /\ lastRun = NoRun
    /\ runs = NoRuns
    /\ rot = NoRot
    /\ trades = NoTrades
    /\ \E n \in 0..MaxMarkets :
         enrich \in {[top_markets |-> ms, concurrency |-> c,
                      task |-> [i \in 1..n |-> "queued"], results |-> <<>>,
                      pc |-> "submitted", enriched |-> <<>>] :
                     ms \in [1..n -> MarketIds], c \in 1..MaxWorkers}

\* a worker thread takes task i from the queue
TaskStart(i) ==
    /\ enrich.task[i] = "queued"
    /\ Running(enrich.task) < enrich.concurrency
    /\ enrich' = [enrich EXCEPT !.task[i] = "running"]
    /\ UNCHANGED <<csvFile, top12File, ranked, index, snaps, archive, hist,
                   clock, builds, lastRun, runs, rot, trades>>

\* lines 354-364: task i has fetched and stores its result under the lock
TaskStore(i) ==
    /\ enrich.task[i] = "running"
    /\ LET mid == Mid(enrich.top_markets[i])
       IN  enrich' = [enrich EXCEPT
                        !.task[i] = "done",
                        !.results = [k \in DOMAIN enrich.results \cup {mid} |->
                                        IF k = mid THEN TaskResult(mid, i)
                                        ELSE enrich.results[k]]]
    /\ UNCHANGED <<csvFile, top12File, ranked, index, snaps, archive, hist,
                   clock, builds, lastRun, runs, rot, trades>>

\* lines 354-362: a fetch of task i raises; the future keeps the exception
TaskRaise(i) ==
    /\ enrich.task[i] = "running"
    /\ Mid(enrich.top_markets[i]) # ""
    /\ enrich' = [enrich EXCEPT !.task[i] = "raised"]
    /\ UNCHANGED <<csvFile, top12File, ranked, index, snaps, archive, hist,
                   clock, builds, lastRun, runs, rot, trades>>

\* lines 371-449: the features, one row per market in input order
EnrichCompute ==
    /\ enrich.pc = "submitted"
    /\ AllFinished(enrich.task)
    /\ enrich' = [enrich EXCEPT
                     !.pc = "returned",
                     !.enriched =
                         [i \in 1..Len(enrich.top_markets) |->
                             [id |-> Mid(enrich.top_markets[i]),
                              bundle |-> Bundle(enrich.results,
                                                Mid(enrich.top_markets[i]))]]]
    /\ UNCHANGED <<csvFile, top12File, ranked, index, snaps, archive, hist,
                   clock, builds, lastRun, runs, rot, trades>>

NextEnrich ==
    \/ \E i \in 1..Len(enrich.task) : TaskStart(i)
    \/ \E i \in 1..Len(enrich.task) : TaskStore(i)
    \/ \E i \in 1..Len(enrich.task) : TaskRaise(i)
    \/ EnrichCompute

SpecEnrich == InitEnrich /\ [][NextEnrich]_vars

----------------------------------------------------------------------------
(* Claims about the ranking, under SpecRank *)

\* the identities of a list of rows
Identities(lst) == {rid(lst[i]) : i \in 1..Len(lst)}

Disjoint(hot, gems) == Identities(hot) \cap Identities(gems) = {}

BuildDone == lastRun.op = "build" /\ lastRun.rc = 0

\* the rows a ranking step ranked: the fetched list, or the CSV as read
RankedInput == csvFile.rows

\* C1: the Hot list and the Overlooked list share no record identity, for
\* the lists of the fetch step, of derive_top12 and of the site builder.
C1_HotOverlookedDisjoint ==
    /\ Disjoint(ranked.hot, ranked.gems)
    /\ BuildDone => Disjoint(lastRun.hot, lastRun.gems)

\* C1, the part that holds of the code: the lists derive_top12 computes are
\* disjoint, and so are those of a build that reads derive_top12's file or
\* no top-12 file at all.
C1_DeriveDisjoint ==
    /\ ranked.by = "derive" => Disjoint(ranked.hot, ranked.gems)
    /\ (BuildDone /\ ranked.by = "derive" /\ top12File.exists)
          => Disjoint(lastRun.hot, lastRun.gems)
    /\ (BuildDone /\ ~top12File.exists) => Disjoint(lastRun.hot, lastRun.gems)

\* C2: the Hot list and the Overlooked list hold at most 12 entries each, in
\* the fetch step, in derive_top12 and on the pages the builder writes.
C2_AtMostLimit ==
    /\ Len(ranked.hot) <= Limit
    /\ Len(ranked.gems) <= Limit
    /\ Len(lastRun.hot) <= Limit
    /\ Len(lastRun.gems) <= Limit
    /\ index.exists => Len(index.hot) <= Limit /\ Len(index.gems) <= Limit
    /\ \A k \in DOMAIN snaps :
           Len(snaps[k].hot) <= Limit /\ Len(snaps[k].gems) <= Limit

\* C2 witness: a build on more than 12 rows whose top-12 file held fewer than
\* 24 rows, so that the Overlooked slots were refilled, with a full Hot list.
C2_Witness ==
    /\ BuildDone
    /\ top12File.exists
    /\ Len(top12File.rows) < 2 * Limit
    /\ Len(csvFile.rows) > Limit
    /\ Len(lastRun.hot) = Limit
    /\ Len(lastRun.gems) > 0
    /\ Len(index.hot) = Limit

\* the rows of the input whose identity is not a Hot identity
NonHot(rows, hot) ==
    Cardinality({i \in 1..Len(rows) : rid(rows[i]) \notin Identities(hot)})

\* C3: the Overlooked list of a ranking step has exactly
\* min(12, number of non-Hot candidates) entries.
C3_OverlookedSize ==
    ranked.by # "none" =>
        Len(ranked.gems) =
            (IF NonHot(RankedInput, ranked.hot) < Limit
             THEN NonHot(RankedInput, ranked.hot) ELSE Limit)

\* C3, the part that holds of the code: derive_top12's Overlooked list.
C3_DeriveSize ==
    ranked.by = "derive" =>
        Len(ranked.gems) =
            (IF NonHot(RankedInput, ranked.hot) < Limit
             THEN NonHot(RankedInput, ranked.hot) ELSE Limit)

----------------------------------------------------------------------------
(* Claims about the snapshot chain, under Spec *)

Keys == DOMAIN snaps

\* a step that is a build run getting past the CSV checks (lines 433-440)
BuildStep ==
    /\ builds' = builds + 1
    /\ csvFile.exists
    /\ csvFile.rows # <<>>

\* a step that is a build run ending with return code 0
BuildOk == BuildStep /\ lastRun'.op = "build" /\ lastRun'.rc = 0

\* C4: the Forward link of every snapshot page is the snapshot with the next
\* larger key, and the live page only for the snapshot with the largest key.
C4_ForwardLinks ==
    \A k \in Keys :
        snaps[k].nav.fwd =
            (IF \A j \in Keys : j <= k THEN IndexHref
             ELSE SnapHref(Min({j \in Keys : j > k})))

\* C5: the Back link of every snapshot page is the snapshot with the next
\* smaller key, and the archive page for the snapshot with the smallest key.
C5_BackLinks ==
    \A k \in Keys :
        snaps[k].nav.back =
            (IF \A j \in Keys : j >= k THEN ArchiveHref
             ELSE SnapHref(Max({j \in Keys : j < k})))

\* C6: a build run whose snapshot key already exists in the chain reports a
\* conflict and leaves the chain unchanged.
C6_ChainConflict ==
    [][(BuildStep /\ ts_for_snapshot(clock) \in Keys)
          => (snaps' = snaps /\ lastRun'.rc # 0)]_vars

\* C7: every successful build run adds exactly one snapshot page, whose key
\* is strictly greater than every key already in the chain.
C7_MonotonicAppend ==
    [][BuildOk
          => /\ Cardinality(DOMAIN snaps') = Cardinality(Keys) + 1
             /\ \A k \in Keys : lastRun'.key > k]_vars

\* C8: once a snapshot page is written, no later run changes its Hot list,
\* its Overlooked list or its description.
C8_ContentFrozen ==
    [][\A k \in Keys :
          /\ k \in DOMAIN snaps'
          /\ snaps'[k].hot = snaps[k].hot
          /\ snaps'[k].gems = snaps[k].gems
          /\ snaps'[k].desc = snaps[k].desc]_vars

\* C9: after every successful build run the index page's Back link targets
\* the snapshot with the largest key that exists once the run has finished.
C9_IndexBackIsTail ==
    BuildDone => index.nav.back = SnapHref(Max(Keys))

\* C10: a build run that starts with zero snapshots gives the index page the
\* links (older = archive page, newer = none).
C10_EmptyChainIndex ==
    [][(BuildOk /\ Keys = {})
          => index'.nav = [back |-> ArchiveHref, fwd |-> NoHref]]_vars

\* C11: whenever the chain is not empty, the archive page's Forward link
\* targets the snapshot with the smallest key, whatever the modification
\* times of the snapshot files are, and the archive page has no Back link.
C11_ArchiveForwardIsFirst ==
    archive.exists =>
        /\ archive.nav.fwd = SnapHref(Min(Keys))
        /\ archive.nav.back = NoHref

\* C11, the part that holds of the code: the archive page has no Back link
\* and its Forward link targets a snapshot of the chain.
C11_ArchiveForwardInChain ==
    archive.exists =>
        /\ archive.nav.back = NoHref
        /\ \E k \in Keys : archive.nav.fwd = SnapHref(k)

\* C12: the snapshot page a build run writes holds the Hot list, the
\* Overlooked list and the description the live page had before the run.
C12_FreezesPreviousLive ==
    [][(BuildOk /\ index.exists)
          => /\ snaps'[lastRun'.key].hot = index.hot
             /\ snaps'[lastRun'.key].gems = index.gems
             /\ snaps'[lastRun'.key].desc = index.desc]_vars

\* C12, what the code does instead: the snapshot page of a run holds the
\* lists and the description of the live page that same run writes.
C12_FreezesNewLive ==
    [][BuildOk
          => /\ snaps'[lastRun'.key].hot = index'.hot
             /\ snaps'[lastRun'.key].gems = index'.gems
             /\ snaps'[lastRun'.key].desc = index'.desc]_vars

\* the file a build run picked from the meta pool: the last entry of recent
LastPick(h) == h.recent_meta[Len(h.recent_meta)]

\* C16: two consecutive build runs never pick the same file from a pool that
\* holds at least two files.
C16_NoImmediateRepeat ==
    [][(BuildOk /\ hist.recent_meta # <<>> /\ Cardinality(MetaPool) >= 2)
          => LastPick(hist') # LastPick(hist)]_vars

\* C18: after a build run the index page shows a Back link and no Forward
\* link, the archive page a Forward link and no Back link, and every
\* snapshot page both links.
C18_LinksShown ==
    BuildDone =>
        /\ index.nav.back # NoHref
        /\ index.nav.fwd = NoHref
        /\ archive.nav.fwd # NoHref
        /\ archive.nav.back = NoHref
        /\ \A k \in Keys : snaps[k].nav.back # NoHref /\ snaps[k].nav.fwd # NoHref

\* C18, the part that holds of the code: everything but the Back link of
\* the index page, which is shown once a snapshot existed before the run.
C18_LinksShownButFirstIndex ==
    BuildDone =>
        /\ index.nav.fwd = NoHref
        /\ archive.nav.fwd # NoHref
        /\ archive.nav.back = NoHref
        /\ \A k \in Keys : snaps[k].nav.back # NoHref /\ snaps[k].nav.fwd # NoHref
        /\ Cardinality(Keys) >= 2 => index.nav.back # NoHref

----------------------------------------------------------------------------
(* Claims about the selection, under SpecSelect and SpecRank *)

\* the rows the last ranking step ranked, as it held them
RankedRows ==
    IF ranked.by = "derive" THEN read_csv_rows_at(csvFile.rows, runs.last)
    ELSE csvFile.rows

\* the cells of a list of rows, without the addresses of their dicts
Contents(lst) == [i \in 1..Len(lst) |-> [lst[i] EXCEPT !.obj = ""]]

\* C13: ranking the same unmodified collection again (rank_hot / rank_gems
\* called again, derive_top12 run again with its dicts elsewhere in memory)
\* yields the same Hot list and the same Overlooked list in the same order.
C13_SameListsAgain ==
    [][(ranked.by # "none" /\ ranked'.by = ranked.by /\ csvFile' = csvFile)
          => /\ Contents(ranked'.hot) = Contents(ranked.hot)
             /\ Contents(ranked'.gems) = Contents(ranked.gems)
             /\ top12File' = top12File]_vars

\* C13 witness: derive_top12 has run twice on a collection of more than 12
\* rows, with two memory layouts; its Overlooked list holds a record without
\* any identity field and two records with equal sort keys.
C13_Witness ==
    /\ ranked.by = "derive"
    /\ runs.prev \in Layouts
    /\ runs.last \in Layouts
    /\ runs.prev # runs.last
    /\ Len(csvFile.rows) > Limit
    /\ \E i \in 1..Len(ranked.gems) : rid(ranked.gems[i]) = ranked.gems[i].obj
    /\ \E i, j \in 1..Len(ranked.gems) :
           /\ i < j
           /\ ranked.gems[i].near50Flag = ranked.gems[j].near50Flag
           /\ ranked.gems[i].underround = ranked.gems[j].underround
           /\ ranked.gems[i].timeToResolveDays = ranked.gems[j].timeToResolveDays

\* near50Flag of a ranked row: a number in the fetch step, a cell in derive
Near50Of(r) == IF ranked.by = "derive" THEN fnum(r.near50Flag) ELSE r.near50Flag

\* 24 h volume inside the moderate band
Moderate(r) == VolLow <= OrZero(r.volume24h) /\ OrZero(r.volume24h) <= VolHigh

\* the non-Hot candidates of the last ranking step
NonHotRows ==
    SelectSeq(RankedRows, LAMBDA r : rid(r) \notin Identities(ranked.hot))

\* fewer than 12 near-50 non-Hot candidates, at least 12 non-Hot candidates,
\* all of moderate volume
BackfillCase ==
    /\ ranked.by # "none"
    /\ Len(SelectSeq(NonHotRows, LAMBDA r : Near50Of(r) = 1)) < Limit
    /\ Len(NonHotRows) >= Limit
    /\ \A i \in 1..Len(NonHotRows) : Moderate(NonHotRows[i])

\* 12 entries, every near-50 candidate among them and before every entry
\* that is not near-50
NearFirst(gems) ==
    /\ Len(gems) = Limit
    /\ Len(SelectSeq(gems, LAMBDA r : Near50Of(r) = 1))
          = Len(SelectSeq(NonHotRows, LAMBDA r : Near50Of(r) = 1))
    /\ \A i, j \in 1..Len(gems) :
           (Near50Of(gems[i]) = 1 /\ Near50Of(gems[j]) # 1) => i < j

\* C14: with fewer than 12 near-50 records among at least 12 non-Hot
\* candidates of moderate volume, the Overlooked list has exactly 12 entries
\* and ranks every near-50 record before every record that is not near-50.
C14_BackfillNearFirst == BackfillCase => NearFirst(ranked.gems)

\* C14, the part that holds of the code: derive_top12's Overlooked list.
C14_DeriveNearFirst ==
    (BackfillCase /\ ranked.by = "derive") => NearFirst(ranked.gems)

\* the lines of the top-12 file with one of the labels
Labelled(lines, labels) == SelectSeq(lines, LAMBDA l : l.label \in labels)

\* C17: with a top-12 file present, the builder's Hot list is the file's HOT
\* rows in rank order and its Overlooked list is the file's OVERLOOKED /
\* HIDDEN_GEMS rows in rank order.
C17_ListsAreTheFile ==
    (BuildDone /\ top12File.exists) =>
        /\ Cards(lastRun.hot) = Cards(Labelled(top12File.rows, {"HOT"}))
        /\ Cards(lastRun.gems)
              = Cards(Labelled(top12File.rows, {"OVERLOOKED", "HIDDEN_GEMS"}))

\* C17, the part that holds of the code: a file of 12 HOT rows followed by
\* 12 rows of the other label is rendered as it is.
C17_FullFileIsRendered ==
    (/\ BuildDone
     /\ top12File.exists
     /\ Len(Labelled(top12File.rows, {"HOT"})) = Limit
     /\ Len(top12File.rows) = 2 * Limit) =>
        /\ Cards(lastRun.hot) = Cards(Labelled(top12File.rows, {"HOT"}))
        /\ Cards(lastRun.gems)
              = Cards(Labelled(top12File.rows, {"OVERLOOKED", "HIDDEN_GEMS"}))

\* C19: the ranking never fails on field values: the fetch step's ranking
\* and derive_top12 on a CSV with rows complete, whatever the volume,
\* spread, underround and time-to-resolve values are.
C19_RankingNeverFails ==
    /\ lastRun.op = "fetch" => lastRun.rc = 0
    /\ (lastRun.op = "derive" /\ csvFile.exists /\ csvFile.rows # <<>>)
          => lastRun.rc = 0

\* C19, the part that holds of the code: derive_top12 completes on every
\* CSV that has rows.
C19_DeriveNeverFails ==
    (lastRun.op = "derive" /\ csvFile.exists /\ csvFile.rows # <<>>)
        => lastRun.rc = 0

\* volume24h when it is present (0 included), else the lifetime volume
PresentVolume(r) ==
    IF IsNum(r.volume24h) THEN r.volume24h[1] ELSE OrZero(r.volume)

\* the row scored on PresentVolume alone
OnPresentVolume(r) ==
    [r EXCEPT !.volume24h = None, !.volume = Some(PresentVolume(r))]

\* C20: the Hot ranking scores a record on its volume24h whenever that is
\* present (a present 0 included) and on its lifetime volume only when
\* volume24h is absent.
C20_EffectiveVolume ==
    /\ ranked.by = "fetch" =>
          ranked.hot =
              Take(StableSort([i \in 1..Len(RankedRows) |->
                      <<(<<0 - HotKey(OnPresentVolume(RankedRows[i]))>>),
                        RankedRows[i]>>]), Limit)
    /\ ranked.by = "derive" =>
          ranked.hot =
              Take(StableSort([i \in 1..Len(RankedRows) |->
                      <<(<<0 - PresentVolume(RankedRows[i])>>)
                        \o ttr_days(RankedRows[i]), RankedRows[i]>>]), Limit)

\* C20, the part that holds of the code: derive_top12's Hot list.
C20_DeriveEffectiveVolume ==
    ranked.by = "derive" =>
        ranked.hot =
            Take(StableSort([i \in 1..Len(RankedRows) |->
                    <<(<<0 - PresentVolume(RankedRows[i])>>)
                      \o ttr_days(RankedRows[i]), RankedRows[i]>>]), Limit)

----------------------------------------------------------------------------
(* Claims about the rotation, under SpecRotation *)

\* C15: after any sequence of choose_rotating_file calls the recent list has
\* at most keep entries and is the most recent picks in pick order.
C15_RecentIsWindow ==
    LET n == Len(rot.picks)
        m == IF n < rot.keep THEN n ELSE rot.keep
    IN  /\ Len(hist.recent_meta) <= rot.keep
        /\ hist.recent_meta = SubSeq(rot.picks, n - m + 1, n)

\* C15 witness: more picks than keep from a pool of several files, and the
\* first pick, evicted, differs from the oldest entry kept.
C15_Witness ==
    /\ rot.keep >= 2
    /\ Cardinality(rot.pool) >= 2
    /\ Len(rot.picks) > rot.keep
    /\ Len(hist.recent_meta) = rot.keep
    /\ hist.recent_meta[1] # rot.picks[1]

----------------------------------------------------------------------------
(* Further claims about the selection *)

\* timeToResolveDays itself when it is present (0 included), else 365
OwnTtr(x) == IF IsNum(x) THEN x[1] ELSE TtrDefault

\* rank_hot's key with the urgency 1/(1 + ttr/30) taken on OwnTtr
HotKeyOwnTtr(r) ==
    HotKey(r)
    - ((30000000 \div (30 + TtrOrDefault(r.timeToResolveDays))) * 12) \div 10
    + ((30000000 \div (30 + OwnTtr(r.timeToResolveDays))) * 12) \div 10

\* rank_gems' key with the urgency 1/(1 + ttr/45) taken on OwnTtr
GemKeyOwnTtr(r) ==
    GemKey(r)
    - 45000000 \div (45 + TtrOrDefault(r.timeToResolveDays))
    + 45000000 \div (45 + OwnTtr(r.timeToResolveDays))

\* C21: the Hot and Overlooked scores take the time urgency from the
\* record's own timeToResolveDays whenever it is present (a record with
\* timeToResolveDays = 0 gets the largest urgency); only an absent value is
\* replaced by the far-future default.
C21_UrgencyFromOwnTtr ==
    ranked.by = "fetch" =>
        /\ ranked.hot = Take(SortedByKeyDesc(RankedRows, HotKeyOwnTtr), Limit)
        /\ ranked.gems
              = Take(SortedByKeyDesc(GemPool(RankedRows), GemKeyOwnTtr), Limit)

\* a is the beginning of b
IsPrefix(a, b) == Len(a) <= Len(b) /\ SubSeq(b, 1, Len(a)) = a

\* the rows the builder resolved from lines a+1..b of the top-12 file
ResolvedFromFile(a, b) ==
    resolve_top12_rows(Slice(read_top12_rows(top12File.rows), a, b),
                       read_csv_rows(csvFile.rows))

\* C22: with a top-12 file present, the builder's Hot list begins with the
\* rows resolved from the file's first 12 lines and its Overlooked list with
\* the rows resolved from the next 12 lines, in file order; fill rows only
\* follow them.
C22_ResolvedRowsKept ==
    (BuildDone /\ top12File.exists) =>
        /\ IsPrefix(ResolvedFromFile(0, Limit), lastRun.hot)
        /\ IsPrefix(ResolvedFromFile(Limit, 2 * Limit), lastRun.gems)

\* C22, the part that holds of the code: the Hot list.
C22_ResolvedHotKept ==
    (BuildDone /\ top12File.exists) =>
        IsPrefix(ResolvedFromFile(0, Limit), lastRun.hot)

----------------------------------------------------------------------------
(* Further claims about the site, under Spec *)

\* C27: a build run that fails because there is no CSV or the CSV has no
\* rows adds no snapshot, rewrites neither the index nor the archive page
\* and leaves the description history as it is.
C27_FailedBuildChangesNothing ==
    [][(/\ builds' = builds + 1
        /\ ~csvFile.exists \/ csvFile.rows = <<>>
        /\ lastRun'.rc # 0)
          => UNCHANGED <<snaps, index, archive, hist>>]_vars

\* C27 witness: a build run has failed on a site that has pages, a snapshot
\* and a description history.
C27_Witness ==
    /\ lastRun.op = "build"
    /\ lastRun.rc # 0
    /\ index.exists
    /\ archive.exists
    /\ Keys # {}
    /\ hist.recent_meta # <<>>

\* C28: after every successful build run the snapshot page with the largest
\* key holds the Hot list, the Overlooked list and the description of the
\* index page that run wrote.
C28_TailEqualsLive ==
    BuildDone =>
        /\ snaps[Max(Keys)].hot = index.hot
        /\ snaps[Max(Keys)].gems = index.gems
        /\ snaps[Max(Keys)].desc = index.desc

\* C28 witness: a successful build run on a chain that holds an older
\* snapshot with another description, with a Hot list on the index page.
C28_Witness ==
    /\ BuildDone
    /\ Cardinality(Keys) >= 2
    /\ lastRun.key = Max(Keys)
    /\ Len(index.hot) > 0
    /\ \E k \in Keys : snaps[k].desc # index.desc

\* C29: no snapshot page has a Back or Forward link that targets the page
\* itself.
C29_NoSelfLink ==
    \A k \in Keys :
        snaps[k].nav.back # SnapHref(k) /\ snaps[k].nav.fwd # SnapHref(k)

----------------------------------------------------------------------------
(* Claims about fetch_trades_24h, under SpecTrades *)

\* two intervals of trade numbers share no trade
Apart(a, b) == a[2] < b[1] \/ b[2] < a[1]

\* C23: fetch_trades_24h sends at most 5 page requests, successive requests
\* ask for different trades, and every trade of the last 24 hours counts at
\* most once in trades24h and volume24h.
C23_TradesCountedOnce ==
    /\ Len(trades.asked) <= TradesPages
    /\ \A i, j \in 1..Len(trades.asked) :
           i < j => trades.asked[i] # trades.asked[j]
    /\ \A i, j \in 1..Len(trades.got) :
           i < j => Apart(trades.got[i], trades.got[j])
    /\ trades.total_trades <= trades.n
    /\ trades.total_volume <= trades.n * trades.size

\* C23, the part that holds of the code: at most 5 page requests, and a
\* market with fewer than 1000 trades is counted once.
C23_AtMostFivePages ==
    /\ Len(trades.asked) <= TradesPages
    /\ trades.n < TradesLimit =>
          /\ trades.total_trades <= trades.n
          /\ trades.total_volume <= trades.n * trades.size

----------------------------------------------------------------------------
(* Claims about fast_enrich, under SpecEnrich *)

\* the market at position i is the only one with its id
OwnId(i) ==
    \A j \in 1..Len(enrich.top_markets) :
        Mid(enrich.top_markets[j]) = Mid(enrich.top_markets[i]) => j = i

\* C26: for every interleaving of the worker threads, also when tasks raise,
\* fast_enrich computes the features after all tasks have finished and
\* returns one row per input market in input order; a market with an id of
\* its own gets the result of its own task.
C26_OneRowPerMarket ==
    enrich.pc = "returned" =>
        /\ \A i \in 1..Len(enrich.task) :
               enrich.task[i] \in {"done", "raised"}
        /\ Len(enrich.enriched) = Len(enrich.top_markets)
        /\ \A i \in 1..Len(enrich.top_markets) :
               /\ enrich.enriched[i].id = Mid(enrich.top_markets[i])
               /\ (OwnId(i) /\ enrich.task[i] = "done") =>
                      enrich.enriched[i].bundle
                          = TaskResult(Mid(enrich.top_markets[i]), i)
               /\ (OwnId(i) /\ enrich.task[i] = "raised") =>
                      enrich.enriched[i].bundle = NoBundle

\* C26 witness: fast_enrich has returned for three markets, more than it has
\* workers; one task raised, and the task of the last market stored its
\* result although the first market's task finished after it had started.
C26_Witness ==
    /\ enrich.pc = "returned"
    /\ Len(enrich.top_markets) = 3
    /\ enrich.concurrency = 2
    /\ \A i \in 1..3 : OwnId(i) \/ Mid(enrich.top_markets[i]) = ""
    /\ \E i \in 1..3 : enrich.task[i] = "raised"
    /\ \E i \in 1..3 :
           /\ enrich.task[i] = "done"
           /\ enrich.enriched[i].bundle.by = i
           /\ enrich.enriched[i].bundle.quotes # <<>>

----------------------------------------------------------------------------
(* Claims about the build, under SpecBuild *)

\* C24: whatever desc_history.json holds, load_history returns an object
\* whose recent_meta and recent_long are lists, so a build run on a CSV with
\* rows never fails in the rotation step.
C24_RotationNeverFails ==
    (lastRun.op = "build" /\ csvFile.exists /\ csvFile.rows # <<>>) =>
        lastRun.rc = 0

\* C24, the part that holds of the code: load_history returns an object
\* that has both keys, and the build succeeds on every file that is no
\* object or lacks the keys.
C24_KeysPresent ==
    /\ {"recent_meta", "recent_long"} \subseteq DOMAIN load_history(hist)
    /\ (/\ lastRun.op = "build" /\ csvFile.exists /\ csvFile.rows # <<>>
        /\ \A k \in DOMAIN hist \ {"not_object"} : IsList(hist[k]))
          => lastRun.rc = 0

\* the first of id, slug, url, question that is not empty; "" when all are
FirstNonEmpty(r) ==
    IF r.id # "" THEN r.id
    ELSE IF r.slug # "" THEN r.slug
    ELSE IF r.url # "" THEN r.url
    ELSE r.question

\* C25: the builder's _row_key, the builder's fallback rid and derive_top12
\* give every record that has an id, slug, url or question the same
\* identity, the first of these that is not empty (also when the id is "0").
C25_SameIdentity ==
    (BuildDone /\ ranked.by = "derive") =>
        \A i \in 1..Len(csvFile.rows) :
            LET r == read_csv_rows(csvFile.rows)[i]
            IN  FirstNonEmpty(r) # "" =>
                    /\ row_key(r) = FirstNonEmpty(r)
                    /\ rid(r) = FirstNonEmpty(r)

\* C25, the part that holds of the code: the identities agree on every
\* record whose id is not "0".
C25_SameIdentityButZero ==
    (BuildDone /\ ranked.by = "derive") =>
        \A i \in 1..Len(csvFile.rows) :
            LET r == read_csv_rows(csvFile.rows)[i]
            IN  (FirstNonEmpty(r) # "" /\ r.id # "0") =>
                    /\ row_key(r) = FirstNonEmpty(r)
                    /\ rid(r) = FirstNonEmpty(r)

====
